---- MODULE Spec2Model ----
(***************************************************************************)
(* Journey progress and personalization engine of visa-map-backend.        *)
(*                                                                         *)
(* The journey store (the Journey collection), the Journey model methods   *)
(* (updateProgress, markStepCompleted, updateChecklist,                    *)
(* updatePersonalization, addNote, the pre-save middleware) and the        *)
(* journey controller handlers are modelled.  A handler is one atomic      *)
(* action under Spec (requests served one at a time); under SpecConc the   *)
(* createOrUpdateJourney handler is split at its await points, so two      *)
(* requests can interleave their lookup and their save.                    *)
(***************************************************************************)
EXTENDS Integers, Sequences, FiniteSets, TLC

----------------------------------------------------------------------------
(* Bounds of the model *)

MaxJourneys == 2
MaxTime == 2
MaxNotes == 2
MaxWrites == 3

\* entries of a catalog list
MaxItems == 2

\* failed login attempts counted on the account
MaxFailures == 6

----------------------------------------------------------------------------
(* Universe of inputs *)

Users == {"u1", "u2"}

EmailOf(u) == IF u = "u1" THEN "e1" ELSE "e2"

Emails == {EmailOf(u) : u \in Users}

UnknownEmail == "nobody"

Routes == {"IN-GB"}

StepIds == {"unconditional-offer", "cas"}

ChecklistIds == {"passport", "photo"}

Permissions == {"view", "comment", "edit"}

Procs == {"p1", "p2"}

JourneyIds == 1..MaxJourneys

NoTime == -1

NoId == 0

\* isLength({ min: 1, max: 1000 }) of journeyValidation.addNote
NoteMinLength == 1

NoteMaxLength == 1000

\* failed attempts that lock the account, and the hours the lock lasts
MaxLoginAttempts == 5

LockHours == 2

EmptyMap == << >>

ActiveStatuses == {"started", "in_progress", "under_review"}

\* the enum of journeySchema.status
Statuses == {"started", "in_progress", "under_review", "completed", "abandoned", "cancelled"}

----------------------------------------------------------------------------
(* Maps with string keys (JS objects and Mongoose Maps) *)

\* Map.set(key, value)
MapSet(m, k, v) == [x \in (DOMAIN m) \cup {k} |-> IF x = k THEN v ELSE m[x]]

\* { ...a, ...b }, and forEach(([k, v]) => a.set(k, v))
MapMerge(a, b) == [x \in (DOMAIN a) \cup (DOMAIN b) |-> IF x \in DOMAIN b THEN b[x] ELSE a[x]]

\* all maps from a subset of ks to vs
PartialMaps(ks, vs) == UNION {[d -> vs] : d \in SUBSET ks}

----------------------------------------------------------------------------
(* Journey model: schema defaults and instance methods *)

\* schema defaults of personalizationData (hasCAS: false, studyLocation: '')
PDDefaults == [hasCAS |-> FALSE, studyLocation |-> ""]

\* the filter left out: every entry counts as completed
CountCompleted_all(m) == Cardinality(DOMAIN m)

\* entries.filter(([, completed]) => completed).length
CountCompleted(m) == Cardinality({k \in DOMAIN m : m[k]})

\* entries.length
CountEntries(m) == Cardinality(DOMAIN m)

\* Math.floor in place of Math.round
CompletionPercentage_floor(completedItems, totalItems) ==
  IF totalItems > 0 THEN (100 * completedItems) \div totalItems ELSE 0

\* totalItems > 0 ? Math.round((completedItems / totalItems) * 100) : 0
CompletionPercentage(completedItems, totalItems) ==
  IF totalItems > 0 THEN (200 * completedItems + totalItems) \div (2 * totalItems) ELSE 0

\* the five counters both updateProgress and the pre-save hook assign
ComputeMetrics(steps, checklist) ==
  [totalSteps |-> CountEntries(steps),
   completedSteps |-> CountCompleted(steps),
   checklistItems |-> CountEntries(checklist),
   completedChecklistItems |-> CountCompleted(checklist),
   completionPercentage |-> CompletionPercentage(CountCompleted(steps) + CountCompleted(checklist),
                                                 CountEntries(steps) + CountEntries(checklist))]

\* progressMetrics defaults of the schema
DefaultMetrics ==
  [totalSteps |-> 0, completedSteps |-> 0, checklistItems |-> 0,
   completedChecklistItems |-> 0, completionPercentage |-> 0]

\* journey.updateProgress(), up to its save()
UpdateProgress(doc, t) ==
  [doc EXCEPT !.progressMetrics = ComputeMetrics(doc.stepCompletion, doc.checklist),
              !.timestamps.lastActivity = t]

\* the map is replaced by one that holds the completed step only
MarkStepCompleted_only(doc, stepId, t) ==
  UpdateProgress([doc EXCEPT !.stepCompletion = [k \in {stepId} |-> TRUE],
                             !.timestamps.stepCompleted = t], t)

\* journey.markStepCompleted(stepId), up to its save()
MarkStepCompleted(doc, stepId, t) ==
  UpdateProgress([doc EXCEPT !.stepCompletion = MapSet(@, stepId, TRUE),
                             !.timestamps.stepCompleted = t], t)

\* stepCompletion.delete(stepId) in place of set(stepId, false)
MarkStepIncomplete_delete(doc, stepId, t) ==
  UpdateProgress([doc EXCEPT !.stepCompletion = [k \in (DOMAIN @) \ {stepId} |-> @[k]]], t)

\* the else branch of updateStepCompletion: stepCompletion.set(stepId, false); updateProgress()
MarkStepIncomplete(doc, stepId, t) ==
  UpdateProgress([doc EXCEPT !.stepCompletion = MapSet(@, stepId, FALSE)], t)

\* this.checklist = new Map(Object.entries(checklistUpdates)): replaced, not merged
UpdateChecklist_replace(doc, checklistUpdates, t) ==
  UpdateProgress([doc EXCEPT !.checklist = checklistUpdates], t)

\* journey.updateChecklist(checklistUpdates), up to its save()
UpdateChecklist(doc, checklistUpdates, t) ==
  UpdateProgress([doc EXCEPT !.checklist = MapMerge(@, checklistUpdates)], t)

\* the condition of the CAS auto-completion: if (personalizationData.hasCAS)
CasTrigger(personalizationData) ==
  "hasCAS" \in DOMAIN personalizationData /\ personalizationData["hasCAS"] = TRUE

\* this.personalizationData = personalizationData: the answers replaced, not merged
UpdatePersonalization_replace(doc, personalizationData, t) ==
  LET merged == [doc EXCEPT !.personalizationData = MapMerge(PDDefaults, personalizationData)]
      auto == IF CasTrigger(personalizationData)
              THEN [merged EXCEPT !.stepCompletion = MapSet(MapSet(@, "unconditional-offer", TRUE), "cas", TRUE),
                                  !.timestamps.casAutoCompleted = t]
              ELSE merged
  IN UpdateProgress(auto, t)

\* journey.updatePersonalization(personalizationData), up to its save()
UpdatePersonalization(doc, personalizationData, t) ==
  LET merged == [doc EXCEPT !.personalizationData = MapMerge(@, personalizationData)]
      auto == IF CasTrigger(personalizationData)
              THEN [merged EXCEPT !.stepCompletion = MapSet(MapSet(@, "unconditional-offer", TRUE), "cas", TRUE),
                                  !.timestamps.casAutoCompleted = t]
              ELSE merged
  IN UpdateProgress(auto, t)

\* notes.unshift in place of notes.push
AddNote_unshift(doc, content, author, t) ==
  [doc EXCEPT !.notes = <<[content |-> content, author |-> author]>> \o @,
              !.timestamps.lastActivity = t]

\* journey.addNote(content, author), up to its save()
AddNote(doc, content, author, t) ==
  [doc EXCEPT !.notes = Append(@, [content |-> content, author |-> author]),
              !.timestamps.lastActivity = t]

\* this.isModified('stepCompletion') || this.isModified('checklist'); a new
\* document has every path it was constructed with marked modified
IsModifiedMaps(loaded, doc, isNew) ==
  isNew \/ doc.stepCompletion # loaded.stepCompletion \/ doc.checklist # loaded.checklist

\* the hook without its lastActivity stamp
PreSave_nostamp(loaded, doc, isNew, t) ==
  IF IsModifiedMaps(loaded, doc, isNew)
  THEN [doc EXCEPT !.progressMetrics = ComputeMetrics(doc.stepCompletion, doc.checklist)]
  ELSE doc

\* journeySchema.pre('save')
PreSave(loaded, doc, isNew, t) ==
  LET stamped == [doc EXCEPT !.timestamps.lastActivity = t]
  IN IF IsModifiedMaps(loaded, doc, isNew)
     THEN [stamped EXCEPT !.progressMetrics = ComputeMetrics(doc.stepCompletion, doc.checklist)]
     ELSE stamped

\* keys of b whose value differs from a (the modified paths of a map)
ChangedKeys(a, b) == {k \in DOMAIN b : k \notin DOMAIN a \/ a[k] # b[k]}

\* save() replaces the stored document by the copy in memory
ApplyDelta_overwrite(cur, loaded, doc) == doc

\* the update save() sends: the paths modified since the document was loaded
\* ($set of the changed keys, $unset of the removed ones), applied to the
\* stored document
ApplyDelta(cur, loaded, doc) ==
  LET kept(c, l, d) == [k \in (DOMAIN c) \ ((DOMAIN l) \ (DOMAIN d)) |-> c[k]]
      deltaMap(c, l, d) == MapMerge(kept(c, l, d), [k \in ChangedKeys(l, d) |-> d[k]])
  IN [cur EXCEPT
        !.personalizationData = deltaMap(@, loaded.personalizationData, doc.personalizationData),
        !.stepCompletion = deltaMap(@, loaded.stepCompletion, doc.stepCompletion),
        !.checklist = deltaMap(@, loaded.checklist, doc.checklist),
        !.progressMetrics = deltaMap(@, loaded.progressMetrics, doc.progressMetrics),
        !.timestamps = deltaMap(@, loaded.timestamps, doc.timestamps),
        !.notes = @ \o SubSeq(doc.notes, Len(loaded.notes) + 1, Len(doc.notes)),
        !.sharedWith = IF doc.sharedWith # loaded.sharedWith THEN doc.sharedWith ELSE @,
        !.isShared = IF doc.isShared # loaded.isShared THEN doc.isShared ELSE @]

\* document.save() of a loaded document: pre-save hook, then the delta is written
SaveLoaded(cur, loaded, doc, t) == ApplyDelta(cur, loaded, PreSave(loaded, doc, FALSE, t))

\* document.save() of a new document: pre-save hook, then the insert
SaveNew(doc, t) == PreSave(doc, doc, TRUE, t)

----------------------------------------------------------------------------
(* State *)

VARIABLES
  store,    \* the Journey collection: journey id -> stored document
  nextId,   \* the next _id the store hands out
  now,      \* the clock read by new Date()
  resp,     \* the response being sent, NoResponse once it is delivered
  writes,   \* the number of requests that wrote to the store so far
  req,      \* createOrUpdateJourney requests suspended at an await (SpecConc)
  pdf,      \* the last call of pdfService.evaluateConditions and its result (SpecEval)
  auth      \* the login counters of the account and its last login attempt (SpecAuth)

vars == <<store, nextId, now, resp, writes, req, pdf, auth>>

\* a response: the handler, the authenticated caller (req.user), the journey
\* the handler worked on, the HTTP status, and for createOrUpdateJourney the
\* user and route it resolved, whether it inserted a document, the
\* timestamps.lastActivity the client sent and the number of save() calls issued;
\* arg is the part of req.body the handler worked with
Response(op, caller, jid, code) ==
  [op |-> op, caller |-> caller, jid |-> jid, code |-> code,
   user |-> "", route |-> "", created |-> FALSE, clientTs |-> NoTime, saves |-> 0,
   arg |-> EmptyMap]

\* the response of a handler that read `body` from the request
ResponseTo(op, caller, jid, code, body) == [Response(op, caller, jid, code) EXCEPT !.arg = body]

NoResponse == Response("none", "", NoId, 0)

IdleReq == [pc |-> "idle"]

\* no login attempt yet
NoAttempt == [code |-> 0, correct |-> FALSE, locked |-> FALSE]

\* the account as registered: loginAttempts at its default, lockUntil not set
NewAccount == [loginAttempts |-> 0, lockUntil |-> NoTime, streak |-> 0, last |-> NoAttempt]

Init ==
  /\ store = EmptyMap
  /\ nextId = 1
  /\ now = 1
  /\ resp = NoResponse
  /\ writes = 0
  /\ req = [p \in Procs |-> IdleReq]
  /\ pdf = [pc |-> "idle"]
  /\ auth = NewAccount

\* time passes between requests
Tick ==
  /\ resp = NoResponse
  /\ now < MaxTime
  /\ now' = now + 1
  /\ UNCHANGED <<store, nextId, resp, writes, req, pdf, auth>>

\* the response reaches the client; the next request is served after it
Deliver ==
  /\ resp # NoResponse
  /\ resp' = NoResponse
  /\ UNCHANGED <<store, nextId, now, writes, req, pdf, auth>>

\* a handler that answers without touching the store
Reply(r) ==
  /\ resp = NoResponse
  /\ resp' = r
  /\ UNCHANGED <<store, nextId, now, writes, req, pdf, auth>>

\* the server is free and the write budget of the model is not used up
CanWrite == resp = NoResponse /\ writes < MaxWrites

\* a handler that changes the store to st and answers
WriteAndReply(st, r) ==
  /\ CanWrite
  /\ writes' = writes + 1
  /\ store' = st
  /\ resp' = r
  /\ UNCHANGED <<now, pdf, auth>>

\* the store with document id inserted or replaced
Put(st, id, doc) == [x \in (DOMAIN st) \cup {id} |-> IF x = id THEN doc ELSE st[x]]

\* a delete that leaves the record in the collection
Remove_keep(st, id) == st

\* the store without document id (findByIdAndDelete)
Remove(st, id) == [x \in (DOMAIN st) \ {id} |-> st[x]]

----------------------------------------------------------------------------
(* Handlers that address a journey by id *)

\* journey.userId.toString() !== req.user._id.toString()
NotOwner(journey, caller) == journey.userId # caller

\* updateStepCompletion: PATCH /journeys/:id/steps/:stepId
UpdateStepCompletion(caller, id, stepId, completed) ==
  LET op == "updateStepCompletion" IN
  IF id \notin DOMAIN store THEN Reply(Response(op, caller, id, 404))
  ELSE IF NotOwner(store[id], caller) THEN Reply(Response(op, caller, id, 403))
  ELSE LET loaded == store[id]
           doc == IF completed THEN MarkStepCompleted(loaded, stepId, now)
                  ELSE MarkStepIncomplete(loaded, stepId, now)
       IN /\ WriteAndReply(Put(store, id, SaveLoaded(store[id], loaded, doc, now)),
                            ResponseTo(op, caller, id, 200,
                                       [stepId |-> stepId, completed |-> completed]))
          /\ UNCHANGED <<nextId, req>>

\* updateJourneyChecklist: PATCH /journeys/:id/checklist
UpdateJourneyChecklist(caller, id, checklist) ==
  LET op == "updateJourneyChecklist" IN
  IF id \notin DOMAIN store THEN Reply(Response(op, caller, id, 404))
  ELSE IF NotOwner(store[id], caller) THEN Reply(Response(op, caller, id, 403))
  ELSE LET loaded == store[id]
           doc == UpdateChecklist(loaded, checklist, now)
       IN /\ WriteAndReply(Put(store, id, SaveLoaded(store[id], loaded, doc, now)),
                            ResponseTo(op, caller, id, 200, [checklist |-> checklist]))
          /\ UNCHANGED <<nextId, req>>

\* updateJourneyPersonalization: PATCH /journeys/:id/personalization
UpdateJourneyPersonalization(caller, id, personalizationData) ==
  LET op == "updateJourneyPersonalization" IN
  IF id \notin DOMAIN store THEN Reply(Response(op, caller, id, 404))
  ELSE IF NotOwner(store[id], caller) THEN Reply(Response(op, caller, id, 403))
  ELSE LET loaded == store[id]
           doc == UpdatePersonalization(loaded, personalizationData, now)
       IN /\ WriteAndReply(Put(store, id, SaveLoaded(store[id], loaded, doc, now)),
                            ResponseTo(op, caller, id, 200, [personalizationData |-> personalizationData]))
          /\ UNCHANGED <<nextId, req>>

\* the lookup that never finds the entry: every share is pushed
FindShare_none(sharedWith, email) == 0

\* journey.sharedWith.find(share => share.email === email): index of the entry, 0 if none
FindShare(sharedWith, email) ==
  IF \E i \in 1..Len(sharedWith) : sharedWith[i].email = email
  THEN CHOOSE i \in 1..Len(sharedWith) :
         /\ sharedWith[i].email = email
         /\ \A k \in 1..(i - 1) : sharedWith[k].email # email
  ELSE 0

\* shareJourney: POST /journeys/:id/share
ShareJourney(caller, id, email, permissions) ==
  LET op == "shareJourney" IN
  IF id \notin DOMAIN store THEN Reply(Response(op, caller, id, 404))
  ELSE IF NotOwner(store[id], caller) THEN Reply(Response(op, caller, id, 403))
  ELSE LET loaded == store[id]
           i == FindShare(loaded.sharedWith, email)
           shared == IF i # 0
                     THEN [loaded.sharedWith EXCEPT ![i].permissions = permissions]
                     ELSE Append(loaded.sharedWith,
                                 [email |-> email, permissions |-> permissions, sharedAt |-> now])
           doc == [loaded EXCEPT !.sharedWith = shared, !.isShared = TRUE]
       IN /\ WriteAndReply(Put(store, id, SaveLoaded(store[id], loaded, doc, now)),
                            ResponseTo(op, caller, id, 200, [email |-> email, permissions |-> permissions]))
          /\ UNCHANGED <<nextId, req>>

\* journeyValidation.addNote: body('content').isString().isLength({ min: 1, max: 1000 });
\* the chain is exported by the validation module and mounted on no route
NoteContentValid(content) == Len(content) >= NoteMinLength /\ Len(content) <= NoteMaxLength

\* addJourneyNote: POST /journeys/:id/notes
AddJourneyNote(caller, id, content) ==
  LET op == "addJourneyNote" IN
  IF content = "" THEN Reply(ResponseTo(op, caller, id, 400, [content |-> content]))
  ELSE IF id \notin DOMAIN store THEN Reply(Response(op, caller, id, 404))
  ELSE IF NotOwner(store[id], caller) THEN Reply(Response(op, caller, id, 403))
  ELSE LET loaded == store[id]
           doc == AddNote(loaded, content, EmailOf(caller), now)
       IN /\ Len(loaded.notes) < MaxNotes
          /\ WriteAndReply(Put(store, id, SaveLoaded(store[id], loaded, doc, now)),
                           ResponseTo(op, caller, id, 201, [content |-> content]))
          /\ UNCHANGED <<nextId, req>>

\* deleteJourney: DELETE /journeys/:id
DeleteJourney(caller, id) ==
  LET op == "deleteJourney" IN
  IF id \notin DOMAIN store THEN Reply(Response(op, caller, id, 404))
  ELSE IF NotOwner(store[id], caller) THEN Reply(Response(op, caller, id, 403))
  ELSE /\ WriteAndReply(Remove(store, id), Response(op, caller, id, 200))
       /\ UNCHANGED <<nextId, req>>

\* journey.sharedWith.some(share => share.email === req.user.email)
HasSharedAccess(journey, caller) ==
  \E i \in 1..Len(journey.sharedWith) : journey.sharedWith[i].email = EmailOf(caller)

\* getJourneyById: GET /journeys/:id
GetJourneyById(caller, id) ==
  LET op == "getJourneyById" IN
  IF id \notin DOMAIN store THEN Reply(Response(op, caller, id, 404))
  ELSE IF NotOwner(store[id], caller) /\ ~HasSharedAccess(store[id], caller)
       THEN Reply(Response(op, caller, id, 403))
  ELSE Reply(Response(op, caller, id, 200))

\* Journey.findOne({...query, status: {$in: active}}).sort({'timestamps.lastActivity': -1}):
\* the ids the query can return, the most recently active of the matches
MostRecentActive(email, routes) ==
  LET matches == {j \in DOMAIN store : /\ store[j].email = email
                                       /\ store[j].route \in routes
                                       /\ store[j].status \in ActiveStatuses}
  IN {j \in matches : \A k \in matches :
        store[k].timestamps.lastActivity <= store[j].timestamps.lastActivity}

\* getJourneyProgress: GET /journeys/progress/:email
GetJourneyProgress(caller, email, routes) ==
  LET op == "getJourneyProgress" IN
  IF MostRecentActive(email, routes) = {} THEN Reply(Response(op, caller, NoId, 200))
  ELSE \E j \in MostRecentActive(email, routes) : Reply(Response(op, caller, j, 200))

----------------------------------------------------------------------------
(* createOrUpdateJourney: POST /journeys *)

Some(v) == [has |-> TRUE, v |-> v]

None == [has |-> FALSE, v |-> EmptyMap]

\* User.findOne({ email })
FindUser(email) == {u \in Users : EmailOf(u) = email}

\* the lookup matching on a terminal status only: it never finds the active journey
FindActive_terminal(st, userId, route) ==
  {j \in DOMAIN st : /\ st[j].userId = userId
                     /\ st[j].route = route
                     /\ st[j].status \in {"completed", "abandoned", "cancelled"}}

\* Journey.findOne({userId, originCountry, destinationCountry, status: {$in: active}}):
\* the ids the query can return
FindActive(st, userId, route) ==
  {j \in DOMAIN st : /\ st[j].userId = userId
                     /\ st[j].route = route
                     /\ st[j].status \in ActiveStatuses}

\* Object.entries(stepCompletion).forEach(([stepId, completed]) => { if (completed) journey.markStepCompleted(stepId) })
RECURSIVE MarkCompletedSteps(_, _, _)
MarkCompletedSteps(doc, stepCompletion, t) ==
  LET todo == {k \in DOMAIN stepCompletion : stepCompletion[k]}
  IN IF todo = {} THEN doc
     ELSE LET k == CHOOSE x \in todo : TRUE
          IN MarkCompletedSteps(MarkStepCompleted(doc, k, t),
                                [x \in (DOMAIN stepCompletion) \ {k} |-> stepCompletion[x]], t)

\* the branch "if (journey)": the in-memory document when the final save() is reached
ResumeDoc(loaded, body, t) ==
  LET d1 == IF body.personalizationData.has
            THEN UpdatePersonalization(loaded, body.personalizationData.v, t) ELSE loaded
      d2 == IF body.checklist.has THEN UpdateChecklist(d1, body.checklist.v, t) ELSE d1
      d3 == IF body.stepCompletion.has THEN MarkCompletedSteps(d2, body.stepCompletion.v, t) ELSE d2
  IN IF body.timestamps.has THEN [d3 EXCEPT !.timestamps = MapMerge(@, body.timestamps.v)] ELSE d3

\* the number of save() calls the branch "if (journey)" issues: one per model
\* method called without await, and the awaited one at the end
ResumeSaves(body) ==
  (IF body.personalizationData.has THEN 1 ELSE 0)
  + (IF body.checklist.has THEN 1 ELSE 0)
  + (IF body.stepCompletion.has THEN CountCompleted(body.stepCompletion.v) ELSE 0)
  + 1

\* the awaited save() rejects with ParallelSaveError when an earlier save() of
\* the same document is still running; the handler's catch answers 500
ResumeCode(body) == IF ResumeSaves(body) > 1 THEN 500 ELSE 200

\* the constructor given empty maps whatever the body carries
NewDoc_emptymaps(userId, body, t) ==
  [userId |-> userId,
   email |-> body.email,
   route |-> body.route,
   status |-> "started",
   phase |-> "selection",
   personalizationData |-> MapMerge(PDDefaults, body.personalizationData.v),
   stepCompletion |-> EmptyMap,
   checklist |-> EmptyMap,
   progressMetrics |-> DefaultMetrics,
   timestamps |-> MapMerge([lastActivity |-> t, stepCompleted |-> NoTime, casAutoCompleted |-> NoTime],
                           body.timestamps.v),
   notes |-> << >>,
   sharedWith |-> << >>,
   isShared |-> FALSE]

\* the branch "else": new Journey({...})
NewDoc(userId, body, t) ==
  [userId |-> userId,
   email |-> body.email,
   route |-> body.route,
   status |-> "started",
   phase |-> "selection",
   personalizationData |-> MapMerge(PDDefaults, body.personalizationData.v),
   stepCompletion |-> body.stepCompletion.v,
   checklist |-> body.checklist.v,
   progressMetrics |-> DefaultMetrics,
   timestamps |-> MapMerge([lastActivity |-> t, stepCompleted |-> NoTime, casAutoCompleted |-> NoTime],
                           body.timestamps.v),
   notes |-> << >>,
   sharedWith |-> << >>,
   isShared |-> FALSE]

\* the response of createOrUpdateJourney; after save() journey.isNew is false
CreateResponse(caller, jid, code, userId, body, created, saves) ==
  [Response("createOrUpdateJourney", caller, jid, code) EXCEPT
     !.user = userId, !.route = body.route, !.created = created, !.saves = saves,
     !.arg = [stepCompletion |-> body.stepCompletion.v, checklist |-> body.checklist.v],
     !.clientTs = IF body.timestamps.has /\ "lastActivity" \in DOMAIN body.timestamps.v
                  THEN body.timestamps.v["lastActivity"] ELSE NoTime]

\* the request bodies the model sends
PersonalizationInputs == {[hasCAS |-> TRUE], [hasCAS |-> FALSE], [studyLocation |-> "london"]}

\* checklist updates that name one item
ChecklistInputs ==
  {m \in PartialMaps(ChecklistIds, BOOLEAN) :
     m = [passport |-> TRUE] \/ m = [photo |-> FALSE]}

StepInputs == {[cas |-> TRUE], [cas |-> FALSE]}

TimestampInputs == {[lastActivity |-> t] : t \in {0, MaxTime}}

Opt(S) == {None} \cup {Some(v) : v \in S}

\* the accounts that save progress: u2 has an account, may be given a share and
\* may send any request, but starts no journey of its own
BodyEmails == {"e1"}

AllBodies ==
  [email : BodyEmails, route : Routes,
   personalizationData : Opt(PersonalizationInputs),
   checklist : Opt(ChecklistInputs),
   stepCompletion : Opt(StepInputs),
   timestamps : Opt(TimestampInputs)]

\* the number of optional fields a body carries
Present(body) ==
  Cardinality({f \in {"personalizationData", "checklist", "stepCompletion", "timestamps"} : body[f].has})

\* bodies with at most one optional field, and the progress save of a client
\* that received its CAS: answers, checklist and steps together
Bodies ==
  {b \in AllBodies :
     \/ Present(b) <= 1
     \/ /\ b.personalizationData = Some([hasCAS |-> TRUE])
        /\ b.checklist = Some([passport |-> TRUE])
        /\ b.stepCompletion = Some([cas |-> TRUE])}

\* the handler served without interleaving
CreateOrUpdateJourney(caller, body) ==
  LET op == "createOrUpdateJourney" IN
  IF FindUser(body.email) = {} THEN Reply(Response(op, caller, NoId, 404))
  ELSE LET userId == CHOOSE u \in FindUser(body.email) : TRUE
           found == FindActive(store, userId, body.route)
       IN IF found # {}
          THEN \E id \in found :
                 /\ CanWrite
                 /\ \E doc \in {ResumeDoc(store[id], body, now)} :
                      WriteAndReply(Put(store, id, SaveLoaded(store[id], store[id], doc, now)),
                                  CreateResponse(caller, id, ResumeCode(body), userId, body, FALSE, ResumeSaves(body)))
                 /\ UNCHANGED <<nextId, req>>
          ELSE /\ nextId <= MaxJourneys
               /\ WriteAndReply(Put(store, nextId, SaveNew(NewDoc(userId, body, now), now)),
                                CreateResponse(caller, nextId, 200, userId, body, TRUE, 1))
               /\ nextId' = nextId + 1
               /\ UNCHANGED req

\* the missing-field and unknown-user early returns
CreateOrUpdateRejected(caller, email) ==
  /\ email \in {"", UnknownEmail}
  /\ Reply(Response("createOrUpdateJourney", caller, NoId, IF email = "" THEN 400 ELSE 404))

----------------------------------------------------------------------------
(* createOrUpdateJourney split at its awaits: the lookup, then the save *)

\* up to "await Journey.findOne(...)": the request holds what the lookup returned
CreateFind(p, caller, body) ==
  /\ req[p].pc = "idle"
  /\ FindUser(body.email) # {}
  /\ LET userId == CHOOSE u \in FindUser(body.email) : TRUE
         found == FindActive(store, userId, body.route)
     IN \/ /\ found = {}
           /\ req' = [req EXCEPT ![p] = [pc |-> "found", caller |-> caller, body |-> body,
                                         userId |-> userId, id |-> NoId, loaded |-> << >>]]
        \/ \E id \in found :
             req' = [req EXCEPT ![p] = [pc |-> "found", caller |-> caller, body |-> body,
                                        userId |-> userId, id |-> id, loaded |-> <<store[id]>>]]
  /\ UNCHANGED <<store, nextId, now, resp, writes, pdf, auth>>

\* from the lookup's result to the response: mutate and save, or construct and save
CreateSave(p) ==
  /\ req[p].pc = "found"
  /\ req' = [req EXCEPT ![p] = IdleReq]
  /\ LET r == req[p] IN
     IF r.id # NoId
     THEN IF r.id \notin DOMAIN store
          THEN \* the document was deleted meanwhile: save() rejects
               /\ resp = NoResponse
               /\ resp' = CreateResponse(r.caller, r.id, 500, r.userId, r.body, FALSE, ResumeSaves(r.body))
               /\ UNCHANGED <<store, nextId, now, writes, pdf, auth>>
          ELSE /\ WriteAndReply(Put(store, r.id, SaveLoaded(store[r.id], r.loaded[1],
                                                             ResumeDoc(r.loaded[1], r.body, now), now)),
                                CreateResponse(r.caller, r.id, ResumeCode(r.body), r.userId, r.body, FALSE,
                                               ResumeSaves(r.body)))
               /\ UNCHANGED nextId
     ELSE /\ nextId <= MaxJourneys
          /\ WriteAndReply(Put(store, nextId, SaveNew(NewDoc(r.userId, r.body, now), now)),
                           CreateResponse(r.caller, nextId, 200, r.userId, r.body, TRUE, 1))
          /\ nextId' = nextId + 1

----------------------------------------------------------------------------
(* updateStepCompletion split at its awaits: the read, then the save *)

\* up to "await Journey.findById(id)" and the two checks behind it: the
\* request holds the document it read
StepFind(p, caller, id, stepId, completed) ==
  LET op == "updateStepCompletion" IN
  /\ req[p].pc = "idle"
  /\ IF id \notin DOMAIN store THEN Reply(Response(op, caller, id, 404))
     ELSE IF NotOwner(store[id], caller) THEN Reply(Response(op, caller, id, 403))
     ELSE /\ req' = [req EXCEPT ![p] = [pc |-> "loaded", caller |-> caller, id |-> id,
                                        stepId |-> stepId, completed |-> completed,
                                        loaded |-> <<store[id]>>]]
          /\ UNCHANGED <<store, nextId, now, resp, writes, pdf, auth>>

\* the stepCompletion entries of the store that the copy read earlier does
\* not hold: what other requests saved since
MissedSteps(cur, loaded) ==
  [k \in ChangedKeys(loaded.stepCompletion, cur.stepCompletion) |-> cur.stepCompletion[k]]

\* from the document read to the response: set the step on the copy and save it
StepSave(p) ==
  LET op == "updateStepCompletion"
      r == req[p]
  IN /\ r.pc = "loaded"
     /\ req' = [req EXCEPT ![p] = IdleReq]
     /\ IF r.id \notin DOMAIN store
        THEN \* the document was deleted meanwhile: save() rejects
             /\ resp = NoResponse
             /\ resp' = Response(op, r.caller, r.id, 500)
             /\ UNCHANGED <<store, nextId, now, writes, pdf, auth>>
        ELSE LET loaded == r.loaded[1]
                 doc == IF r.completed THEN MarkStepCompleted(loaded, r.stepId, now)
                        ELSE MarkStepIncomplete(loaded, r.stepId, now)
             IN /\ WriteAndReply(Put(store, r.id, SaveLoaded(store[r.id], loaded, doc, now)),
                                ResponseTo(op, r.caller, r.id, 200,
                                           [stepId |-> r.stepId, completed |-> r.completed,
                                            missed |-> MissedSteps(store[r.id], loaded)]))
                /\ UNCHANGED nextId

----------------------------------------------------------------------------
(* authController.login and the lock of the User model; the clock counts hours *)

\* the virtual isLocked: !!(this.lockUntil && this.lockUntil > Date.now())
IsLocked(user, t) == user.lockUntil # NoTime /\ user.lockUntil > t

\* the lock is set by the attempt after the fifth
IncLoginAttempts_sixth(user, t) ==
  IF user.lockUntil # NoTime /\ user.lockUntil < t
  THEN [user EXCEPT !.loginAttempts = 1, !.lockUntil = NoTime]
  ELSE [user EXCEPT !.loginAttempts = @ + 1,
                    !.lockUntil = IF user.loginAttempts >= MaxLoginAttempts /\ ~IsLocked(user, t)
                                  THEN t + LockHours ELSE @]

\* incLoginAttempts: restart at 1 after an expired lock, else count the
\* attempt and lock the account when it is the fifth
IncLoginAttempts(user, t) ==
  IF user.lockUntil # NoTime /\ user.lockUntil < t
  THEN [user EXCEPT !.loginAttempts = 1, !.lockUntil = NoTime]
  ELSE [user EXCEPT !.loginAttempts = @ + 1,
                    !.lockUntil = IF user.loginAttempts + 1 >= MaxLoginAttempts /\ ~IsLocked(user, t)
                                  THEN t + LockHours ELSE @]

\* resetLoginAttempts: $unset of both fields; an unset loginAttempts reads as
\* the schema default 0
ResetLoginAttempts(user) == [user EXCEPT !.loginAttempts = 0, !.lockUntil = NoTime]

\* POST /auth/login for the account; correct says whether comparePassword
\* accepts the password.  last keeps the status, the password verdict and
\* whether a lock was in force when the attempt came in; streak counts the
\* failed attempts since the last successful login or lock expiry
Login(correct) ==
  LET locked == auth.lockUntil # NoTime /\ now < auth.lockUntil
      attempt(code) == [code |-> code, correct |-> correct, locked |-> locked]
  IN /\ IF ~correct
        THEN /\ auth.loginAttempts < MaxFailures
             /\ auth' = [IncLoginAttempts(auth, now) EXCEPT
                           !.streak = @ + 1, !.last = attempt(401)]
        ELSE IF IsLocked(auth, now)
        THEN auth' = [auth EXCEPT !.last = attempt(423)]
        ELSE auth' = [(IF auth.loginAttempts > 0 THEN ResetLoginAttempts(auth) ELSE auth)
                        EXCEPT !.streak = 0, !.last = attempt(200)]
     /\ UNCHANGED <<store, nextId, now, resp, writes, req, pdf>>

\* an hour passes, long enough for two locks to run out; a lock that runs
\* out ends the streak it closed
Elapse ==
  /\ now < MaxTime + 2 * LockHours + 1
  /\ now' = now + 1
  /\ auth' = IF auth.lockUntil # NoTime /\ now < auth.lockUntil /\ auth.lockUntil <= now + 1
             THEN [auth EXCEPT !.streak = 0] ELSE auth
  /\ UNCHANGED <<store, nextId, resp, writes, req, pdf>>

----------------------------------------------------------------------------
(* pdfService.evaluateConditions *)

\* JavaScript values: the type tag decides which field carries the value
JsUndefined == [type |-> "undefined", b |-> FALSE, s |-> "", n |-> 0]

JsBoolean(b) == [type |-> "boolean", b |-> b, s |-> "", n |-> 0]

JsString(s) == [type |-> "string", b |-> FALSE, s |-> s, n |-> 0]

JsNumber(n) == [type |-> "number", b |-> FALSE, s |-> "", n |-> n]

\* only the boolean true counts as truthy
Truthy_onlytrue(v) == v.type = "boolean" /\ v.b

\* ToBoolean(v), the test behind !v and the bare v of a condition
Truthy(v) ==
  CASE v.type = "boolean" -> v.b
    [] v.type = "string" -> v.s # ""
    [] v.type = "number" -> v.n # 0
    [] OTHER -> FALSE

\* personalizationData[key]: undefined when the object has no such property
GetProperty(obj, key) == IF key \in DOMAIN obj THEN obj[key] ELSE JsUndefined

\* the three tests of the loop body: the entry makes evaluateConditions return false
ConditionFails(expectedValue, actualValue) ==
  \/ expectedValue = JsBoolean(TRUE) /\ ~Truthy(actualValue)
  \/ expectedValue = JsBoolean(FALSE) /\ Truthy(actualValue)
  \/ expectedValue.type = "string" /\ actualValue # expectedValue

\* conditions is null (or undefined), or an object of expected values
NullConditions == [isNull |-> TRUE, entries |-> EmptyMap]

Conditions(entries) == [isNull |-> FALSE, entries |-> entries]

\* evaluateConditions(conditions, personalizationData): true unless an entry fails
EvaluateConditions(conditions, personalizationData) ==
  IF conditions.isNull THEN TRUE
  ELSE \A key \in DOMAIN conditions.entries :
         ~ConditionFails(conditions.entries[key], GetProperty(personalizationData, key))

\* the answer fields and values the evaluator is called with
ConditionFields == {"hasCAS", "studyLocation"}

JsValues ==
  {JsBoolean(TRUE), JsBoolean(FALSE), JsString("london"), JsString("leeds"), JsString(""),
   JsNumber(0), JsNumber(18), JsNumber(21)}

\* null, every condition on one field, and two conditions on both fields
ConditionInputs ==
  {NullConditions}
  \cup {Conditions([k \in {f} |-> v]) : f \in ConditionFields, v \in JsValues}
  \cup {Conditions([hasCAS |-> JsBoolean(TRUE), studyLocation |-> JsString("london")]),
        Conditions([hasCAS |-> JsBoolean(FALSE), studyLocation |-> JsNumber(18)])}

AnswerInputs == PartialMaps(ConditionFields, JsValues)

\* a call of evaluateConditions returns
Evaluate(conditions, answers) ==
  /\ pdf.pc = "idle"
  /\ pdf' = [pc |-> "done", conditions |-> conditions, answers |-> answers,
             result |-> EvaluateConditions(conditions, answers)]
  /\ UNCHANGED <<store, nextId, now, resp, writes, req, auth>>

\* the caller has used the result
EvaluateReturn ==
  /\ pdf.pc = "done"
  /\ pdf' = [pc |-> "idle"]
  /\ UNCHANGED <<store, nextId, now, resp, writes, req, auth>>

----------------------------------------------------------------------------
(* pdfService.processVisaSteps, processDocuments *)

\* a catalog entry as the report service reads it: its step number and its
\* conditions object, null when the entry has none
Item(stepNumber, conditions) == [stepNumber |-> stepNumber, conditions |-> conditions]

\* the callback of filter: an entry with a conditions object is kept when the
\* evaluator says so, an entry without one always
KeepItem(item, personalizationData) ==
  IF ~item.conditions.isNull
  THEN EvaluateConditions(item.conditions, personalizationData)
  ELSE TRUE

\* Array.prototype.filter with that callback: a new array, in the order of the old
RECURSIVE FilterItems(_, _)
FilterItems(items, personalizationData) ==
  IF items = <<>> THEN <<>>
  ELSE (IF KeepItem(Head(items), personalizationData) THEN <<Head(items)>> ELSE <<>>)
       \o FilterItems(Tail(items), personalizationData)

\* the callback of map: { ...item, isPersonalized: !!item.conditions }
TagItem(item) ==
  [stepNumber |-> item.stepNumber, conditions |-> item.conditions,
   isPersonalized |-> ~item.conditions.isNull]

\* a call returns its array and leaves the argument array as it found it
ProcessVisaSteps(steps, personalizationData) ==
  LET kept == FilterItems(steps, personalizationData)
  IN [catalog |-> steps, result |-> [i \in 1..Len(kept) |-> TagItem(kept[i])]]

ProcessDocuments(documents, personalizationData) ==
  LET kept == FilterItems(documents, personalizationData)
  IN [catalog |-> documents, result |-> [i \in 1..Len(kept) |-> TagItem(kept[i])]]

----------------------------------------------------------------------------
(* pdfService.calculateTotalFee *)

\* the fees argument: null, or a base and a list of additional fees
NullFees == [isNull |-> TRUE, base |-> JsUndefined, additional |-> <<>>]

Fees(base, additional) == [isNull |-> FALSE, base |-> base, additional |-> additional]

\* an entry of fees.additional
AdditionalFee(amount, conditions) == [amount |-> amount, conditions |-> conditions]

\* the forEach over fees.additional: total += amount when the conditions evaluate true
RECURSIVE AddFees(_, _, _)
AddFees(additional, total, personalizationData) ==
  IF additional = <<>> THEN total
  ELSE AddFees(Tail(additional),
               IF EvaluateConditions(Head(additional).conditions, personalizationData)
               THEN total + Head(additional).amount ELSE total,
               personalizationData)

CalculateTotalFee(fees, personalizationData) ==
  IF fees.isNull THEN 0
  ELSE AddFees(fees.additional, IF Truthy(fees.base) THEN fees.base.n ELSE 0,
               personalizationData)

----------------------------------------------------------------------------
(* VisaType.getConditionalDocuments, getPersonalizedSteps *)

\* conditionalLogic.showIf of a catalog entry: not set, or a field and a value
NoShowIf == [set |-> FALSE, field |-> "", value |-> JsUndefined]

ShowIf(field, value) == [set |-> TRUE, field |-> field, value |-> value]

\* an entry of requirements.documents or applicationProcess.steps; the seed
\* data sets isConditional on the steps that carry a showIf
CatalogEntry(stepNumber, showIf) ==
  [stepNumber |-> stepNumber, isConditional |-> showIf.set, showIf |-> showIf]

\* userResponses[field] === value
ShowIfMatches(showIf, userResponses) ==
  GetProperty(userResponses, showIf.field) = showIf.value

KeepDocument(doc, userResponses) ==
  IF ~doc.showIf.set THEN TRUE ELSE ShowIfMatches(doc.showIf, userResponses)

KeepStep(step, userResponses) ==
  IF ~step.isConditional \/ ~step.showIf.set THEN TRUE
  ELSE ShowIfMatches(step.showIf, userResponses)

RECURSIVE FilterDocuments(_, _)
FilterDocuments(documents, userResponses) ==
  IF documents = <<>> THEN <<>>
  ELSE (IF KeepDocument(Head(documents), userResponses) THEN <<Head(documents)>> ELSE <<>>)
       \o FilterDocuments(Tail(documents), userResponses)

RECURSIVE FilterSteps(_, _)
FilterSteps(steps, userResponses) ==
  IF steps = <<>> THEN <<>>
  ELSE (IF KeepStep(Head(steps), userResponses) THEN <<Head(steps)>> ELSE <<>>)
       \o FilterSteps(Tail(steps), userResponses)

\* x placed behind the entries of a sorted list that do not come after it
RECURSIVE InsertByStepNumber(_, _)
InsertByStepNumber(sorted, x) ==
  IF sorted = <<>> THEN <<x>>
  ELSE IF Head(sorted).stepNumber - x.stepNumber <= 0
       THEN <<Head(sorted)>> \o InsertByStepNumber(Tail(sorted), x)
       ELSE <<x>> \o sorted

\* Array.prototype.sort((a, b) => a.stepNumber - b.stepNumber): stable
RECURSIVE SortByStepNumber(_)
SortByStepNumber(items) ==
  IF items = <<>> THEN <<>>
  ELSE InsertByStepNumber(SortByStepNumber(SubSeq(items, 1, Len(items) - 1)),
                          items[Len(items)])

\* filter builds a new array; the stored list stays as it is
GetConditionalDocuments(documents, userResponses) ==
  [catalog |-> documents, result |-> FilterDocuments(documents, userResponses)]

\* the stored list is sorted where it stands, then filtered
GetPersonalizedSteps_sortstored(steps, userResponses) ==
  [catalog |-> SortByStepNumber(steps),
   result |-> FilterSteps(SortByStepNumber(steps), userResponses)]

\* sort works on the array filter built; the stored list stays as it is
GetPersonalizedSteps(steps, userResponses) ==
  [catalog |-> steps, result |-> SortByStepNumber(FilterSteps(steps, userResponses))]

----------------------------------------------------------------------------
(* Calls of the personalizers *)

\* the conditions catalog entries carry: none, a boolean, a string, a number
ItemConditions ==
  {NullConditions,
   Conditions([hasCAS |-> JsBoolean(TRUE)]),
   Conditions([studyLocation |-> JsString("london")]),
   Conditions([studyLocation |-> JsNumber(18)])}

StepNumbers == 1..MaxItems

\* the catalog lists: every order of up to MaxItems entries
RECURSIVE SeqsUpTo(_, _)
SeqsUpTo(S, n) ==
  IF n = 0 THEN {<<>>}
  ELSE LET shorter == SeqsUpTo(S, n - 1)
       IN shorter \cup {Append(q, x) : q \in shorter, x \in S}

CatalogInputs == SeqsUpTo({Item(n, c) : n \in StepNumbers, c \in ItemConditions}, MaxItems)

\* the showIf clauses of the visa type documents and steps
ShowIfInputs ==
  {NoShowIf,
   ShowIf("hasCAS", JsBoolean(TRUE)),
   ShowIf("hasCAS", JsBoolean(FALSE)),
   ShowIf("studyLocation", JsString("london"))}

VisaTypeInputs ==
  SeqsUpTo({CatalogEntry(n, c) : n \in StepNumbers, c \in ShowIfInputs}, MaxItems)

\* the answers the personalizers are called with
PersonalizerAnswers ==
  {EmptyMap,
   [hasCAS |-> JsBoolean(TRUE)],
   [hasCAS |-> JsString("yes")],
   [studyLocation |-> JsString("london")],
   [studyLocation |-> JsNumber(21)],
   [hasCAS |-> JsBoolean(TRUE), studyLocation |-> JsString("london")]}

PdfPersonalizers == {"processVisaSteps", "processDocuments"}

VisaTypePersonalizers == {"getConditionalDocuments", "getPersonalizedSteps"}

CallPersonalizer(fn, catalog, answers) ==
  CASE fn = "processVisaSteps" -> ProcessVisaSteps(catalog, answers)
    [] fn = "processDocuments" -> ProcessDocuments(catalog, answers)
    [] fn = "getConditionalDocuments" -> GetConditionalDocuments(catalog, answers)
    [] fn = "getPersonalizedSteps" -> GetPersonalizedSteps(catalog, answers)

\* generateVisaChecklist has the lists of its visaType argument in hand, the
\* visa controller those of the VisaType document it found
LoadCatalog(owner, catalog) ==
  /\ pdf.pc = "idle"
  /\ pdf' = [pc |-> "loaded", owner |-> owner, catalog |-> catalog]
  /\ UNCHANGED <<store, nextId, now, resp, writes, req, auth>>

\* a personalizer is called on the list and returns
Personalize(fn, answers) ==
  /\ pdf.pc = "loaded"
  /\ fn \in (IF pdf.owner = "pdfService" THEN PdfPersonalizers ELSE VisaTypePersonalizers)
  /\ LET r == CallPersonalizer(fn, pdf.catalog, answers)
     IN pdf' = [pc |-> "called", owner |-> pdf.owner, fn |-> fn, answers |-> answers, before |-> pdf.catalog,
                catalog |-> r.catalog, result |-> r.result,
                calls |-> 1, previous |-> <<>>]
  /\ UNCHANGED <<store, nextId, now, resp, writes, req, auth>>

\* the same personalizer is called again on the list with the same answers
PersonalizeAgain ==
  /\ pdf.pc = "called"
  /\ pdf.calls = 1
  /\ LET r == CallPersonalizer(pdf.fn, pdf.catalog, pdf.answers)
     IN pdf' = [pdf EXCEPT !.before = pdf.catalog, !.catalog = r.catalog,
                           !.result = r.result, !.calls = 2, !.previous = pdf.result]
  /\ UNCHANGED <<store, nextId, now, resp, writes, req, auth>>

\* the additional fees of a visa type: the two of the sample visa type, one
\* without conditions and one with a numeric condition
AdditionalFeeInputs ==
  {AdditionalFee(776, Conditions([hasCAS |-> JsBoolean(TRUE)])),
   AdditionalFee(500, Conditions([priorityService |-> JsBoolean(TRUE)])),
   AdditionalFee(19, NullConditions),
   AdditionalFee(55, Conditions([studyLocation |-> JsNumber(18)]))}

FeeInputs ==
  {NullFees}
  \cup {Fees(base, additional) : base \in {JsNumber(524), JsUndefined},
                                 additional \in SeqsUpTo(AdditionalFeeInputs, MaxItems)}

FeeAnswers ==
  PersonalizerAnswers \cup {[hasCAS |-> JsBoolean(TRUE), priorityService |-> JsBoolean(TRUE)]}

\* generateVisaChecklist works out the total fee of the visa type
TotalFee(fees, answers) ==
  /\ pdf.pc = "idle"
  /\ pdf' = [pc |-> "priced", fees |-> fees, answers |-> answers,
             total |-> CalculateTotalFee(fees, answers)]
  /\ UNCHANGED <<store, nextId, now, resp, writes, req, auth>>

\* one clause and one answers map go through both evaluators: the visa
\* controller filters a document that carries the clause as showIf, the
\* report service evaluates the clause as a conditions object
EvaluateBoth(field, value, answers) ==
  /\ pdf.pc = "idle"
  /\ pdf' = [pc |-> "compared", field |-> field, value |-> value, answers |-> answers,
             retained |-> Len(GetConditionalDocuments(
                                <<CatalogEntry(1, ShowIf(field, value))>>, answers).result) = 1,
             result |-> EvaluateConditions(Conditions([f \in {field} |-> value]), answers)]
  /\ UNCHANGED <<store, nextId, now, resp, writes, req, auth>>

\* the caller is done with what it computed
PersonalizeReturn ==
  /\ pdf.pc \in {"loaded", "called", "priced", "compared"}
  /\ pdf' = [pc |-> "idle"]
  /\ UNCHANGED <<store, nextId, now, resp, writes, req, auth>>

----------------------------------------------------------------------------
(* Specifications *)

\* a string of n copies of s
RECURSIVE Repeat(_, _)
Repeat(s, n) ==
  IF n = 0 THEN ""
  ELSE IF n % 2 = 1 THEN s \o Repeat(s, n - 1)
  ELSE LET half == Repeat(s, n \div 2) IN half \o half

\* a note one character longer than the validation schema allows
LongNote == Repeat("x", NoteMaxLength + 1)

NoteInputs == {"", "note", LongNote}

\* the address a journey is shared with: the other account's
ShareEmails == {"e2"}

\* the permissions a share request names
SharePermissionInputs == {"view", "edit"}

\* the step a step request names
StepIdInputs == {"cas"}

\* the ids a request names: those the store has issued, deleted ones included
RequestIds == {id \in JourneyIds : id < nextId}

StepRequest == \E c \in Users, id \in RequestIds, s \in StepIdInputs, b \in BOOLEAN :
                 UpdateStepCompletion(c, id, s, b)

ChecklistRequest == \E c \in Users, id \in RequestIds, m \in ChecklistInputs :
                      UpdateJourneyChecklist(c, id, m)

PersonalizationRequest == \E c \in Users, id \in RequestIds, m \in PersonalizationInputs :
                            UpdateJourneyPersonalization(c, id, m)

ShareRequest == \E c \in Users, id \in RequestIds, e \in ShareEmails, perm \in SharePermissionInputs :
                  ShareJourney(c, id, e, perm)

NoteRequest == \E c \in Users, id \in RequestIds, content \in NoteInputs :
                 AddJourneyNote(c, id, content)

DeleteRequest == \E c \in Users, id \in RequestIds : DeleteJourney(c, id)

GetByIdRequest == \E c \in Users, id \in RequestIds : GetJourneyById(c, id)

GetProgressRequest == \E c \in Users, e \in BodyEmails, rs \in {Routes} \cup {{r} : r \in Routes} :
                        GetJourneyProgress(c, e, rs)

\* the account the body names sends every body, any other account the plain one
CreateCallers(body) == IF Present(body) = 0 THEN Users ELSE FindUser(body.email)

CreateRequest == \E body \in Bodies : \E c \in CreateCallers(body) :
                   CreateOrUpdateJourney(c, body)

CreateRejectedRequest == \E c \in Users, e \in {"", UnknownEmail} : CreateOrUpdateRejected(c, e)

\* requests served one at a time
Next ==
  \/ Tick
  \/ Deliver
  \/ CreateRequest
  \/ CreateRejectedRequest
  \/ StepRequest
  \/ ChecklistRequest
  \/ PersonalizationRequest
  \/ ShareRequest
  \/ NoteRequest
  \/ DeleteRequest
  \/ GetByIdRequest
  \/ GetProgressRequest

Spec == Init /\ [][Next]_vars

\* the bodies of the overlapping requests: each client saves its own progress,
\* with at most a checklist or a completed step
ConcBodies ==
  {b \in Bodies : \/ Present(b) = 0
                  \/ Present(b) = 1 /\ (b.checklist.has \/ b.stepCompletion = Some([cas |-> TRUE]))}

CreateFindStep == \E p \in Procs, body \in ConcBodies :
                    \E c \in FindUser(body.email) : CreateFind(p, c, body)

CreateSaveStep == \E p \in Procs : CreateSave(p)

\* createOrUpdateJourney requests overlapping each other and deletes
NextConc ==
  \/ Tick
  \/ Deliver
  \/ CreateFindStep
  \/ CreateSaveStep
  \/ DeleteRequest

SpecConc == Init /\ [][NextConc]_vars

\* a client starts its journey
StartJourney == \E body \in {b \in Bodies : Present(b) = 0} :
                  \E c \in FindUser(body.email) : CreateOrUpdateJourney(c, body)

StepFindStep == \E p \in Procs, c \in Users, id \in RequestIds, s \in StepIds, b \in BOOLEAN :
                  StepFind(p, c, id, s, b)

StepSaveStep == \E p \in Procs : StepSave(p)

\* updateStepCompletion requests overlapping each other and deletes
NextStepConc ==
  \/ Tick
  \/ Deliver
  \/ StartJourney
  \/ StepFindStep
  \/ StepSaveStep
  \/ DeleteRequest

SpecStepConc == Init /\ [][NextStepConc]_vars

LoginRequest == \E correct \in BOOLEAN : Login(correct)

\* login attempts on one account as time passes
NextAuth ==
  \/ LoginRequest
  \/ Elapse

SpecAuth == Init /\ [][NextAuth]_vars

\* no call is under way: the inputs of the next call are chosen
PdfIdle == pdf.pc = "idle"

EvaluateCall == PdfIdle /\ \E conditions \in ConditionInputs, answers \in AnswerInputs :
                             Evaluate(conditions, answers)

LoadCatalogCall ==
  /\ PdfIdle
  /\ \/ \E catalog \in CatalogInputs : LoadCatalog("pdfService", catalog)
     \/ \E catalog \in VisaTypeInputs : LoadCatalog("VisaType", catalog)

TotalFeeCall == PdfIdle /\ \E fees \in FeeInputs, answers \in FeeAnswers :
                             TotalFee(fees, answers)

EvaluateBothCall ==
  PdfIdle /\ \E field \in ConditionFields, value \in JsValues, answers \in AnswerInputs :
              EvaluateBoth(field, value, answers)

PersonalizeCall == \E fn \in PdfPersonalizers \cup VisaTypePersonalizers, answers \in PersonalizerAnswers :
                     Personalize(fn, answers)

\* calls of the condition evaluator and of the personalizers
NextEval ==
  \/ EvaluateCall
  \/ EvaluateReturn
  \/ LoadCatalogCall
  \/ PersonalizeCall
  \/ PersonalizeAgain
  \/ TotalFeeCall
  \/ EvaluateBothCall
  \/ PersonalizeReturn

SpecEval == Init /\ [][NextEval]_vars

----------------------------------------------------------------------------
(* Properties *)

\* this step is a handler answering a request
HandlerStep == resp = NoResponse /\ resp' # NoResponse

\* the active journeys of a user on a route, as the data model defines active
ActiveOf(st, userId, route) ==
  {j \in DOMAIN st : /\ st[j].userId = userId
                     /\ st[j].route = route
                     /\ st[j].status \in {"started", "in_progress", "under_review"}}

\* the caller's email is in the journey's sharedWith list with one of the permissions
SharedWithCaller(journey, caller, perms) ==
  \E i \in 1..Len(journey.sharedWith) :
    /\ journey.sharedWith[i].email = EmailOf(caller)
    /\ journey.sharedWith[i].permissions \in perms

\* C1: in every reachable state there is at most one active journey per
\* (userId, route), also when createOrUpdateJourney requests interleave their
\* lookup and their save.
C1_OneActivePerRoute ==
  \A u \in Users, r \in Routes : Cardinality(ActiveOf(store, u, r)) <= 1

C4_CountersMatchMaps ==
  \A j \in DOMAIN store :
    LET m == store[j].progressMetrics
        sc == store[j].stepCompletion
        cl == store[j].checklist
    IN /\ m.totalSteps = Cardinality(DOMAIN sc)
       /\ m.completedSteps = Cardinality({k \in DOMAIN sc : sc[k] = TRUE})
       /\ m.checklistItems = Cardinality(DOMAIN cl)
       /\ m.completedChecklistItems = Cardinality({k \in DOMAIN cl : cl[k] = TRUE})

\* a stored journey with an un-completed step and an un-completed checklist
\* item among its entries
C4_Witness ==
  \E j \in DOMAIN store :
    /\ store[j].progressMetrics.totalSteps = 2
    /\ store[j].progressMetrics.completedSteps = 1
    /\ store[j].progressMetrics.checklistItems = 1
    /\ store[j].progressMetrics.completedChecklistItems = 0

\* C5: after updatePersonalization, if the merged personalizationData has
\* hasCAS = true then both CAS steps are completed and casAutoCompleted is the
\* time of the call, also when the call did not mention hasCAS.
C5_CasAutoCompleteOnMerged ==
  (/\ resp.op = "updateJourneyPersonalization"
   /\ resp.code = 200
   /\ store[resp.jid].personalizationData["hasCAS"] = TRUE)
  => (/\ "unconditional-offer" \in DOMAIN store[resp.jid].stepCompletion
      /\ store[resp.jid].stepCompletion["unconditional-offer"] = TRUE
      /\ "cas" \in DOMAIN store[resp.jid].stepCompletion
      /\ store[resp.jid].stepCompletion["cas"] = TRUE
      /\ store[resp.jid].timestamps.casAutoCompleted = now)

\* the operations that change a journey
MutatingOps ==
  {"createOrUpdateJourney", "updateStepCompletion", "updateJourneyChecklist",
   "updateJourneyPersonalization", "addJourneyNote", "shareJourney", "deleteJourney"}

\* C6: a mutating operation on a journey by a caller who is neither its owner
\* nor in its sharedWith list is answered Forbidden and leaves the store as it was.
C6_OutsiderForbidden ==
  [][(/\ HandlerStep
      /\ resp'.op \in MutatingOps
      /\ resp'.jid \in DOMAIN store
      /\ store[resp'.jid].userId # resp'.caller
      /\ ~SharedWithCaller(store[resp'.jid], resp'.caller, Permissions))
     => (resp'.code = 403 /\ store' = store)]_vars

\* C7: addNote by a caller who is not the owner succeeds exactly when the
\* caller's email is in sharedWith with permission edit.
C7_EditShareAddsNote ==
  (/\ resp.op = "addJourneyNote"
   /\ resp.code \in {201, 403}
   /\ resp.jid \in DOMAIN store
   /\ store[resp.jid].userId # resp.caller)
  => (resp.code = 201 <=> SharedWithCaller(store[resp.jid], resp.caller, {"edit"}))

\* C8: a read operation hands a journey to a caller only if the caller owns it
\* or the caller's email is in its sharedWith list.
C8_ReadsNeedAccess ==
  (/\ resp.op \in {"getJourneyById", "getJourneyProgress"}
   /\ resp.code = 200
   /\ resp.jid \in DOMAIN store)
  => (\/ store[resp.jid].userId = resp.caller
      \/ SharedWithCaller(store[resp.jid], resp.caller, Permissions))

\* C9: a journey's timestamps.lastActivity never decreases, and a mutating
\* operation that succeeds leaves it at the time of that operation, whatever
\* timestamps the client sent.
C9_LastActivityAdvances ==
  [][/\ \A j \in (DOMAIN store) \cap (DOMAIN store') :
          store'[j].timestamps.lastActivity >= store[j].timestamps.lastActivity
     /\ (/\ HandlerStep
         /\ resp'.op \in MutatingOps \ {"deleteJourney"}
         /\ resp'.code \in {200, 201})
        => store'[resp'.jid].timestamps.lastActivity = now]_vars

\* a resume that carried a client lastActivity in the past was saved with the
\* time of the request
C9_Witness ==
  /\ resp.op = "createOrUpdateJourney"
  /\ resp.code = 200
  /\ ~resp.created
  /\ resp.clientTs # NoTime
  /\ resp.clientTs < now
  /\ store[resp.jid].timestamps.lastActivity = now

\* C10: the key sets of stepCompletion and checklist of a journey only grow
\* from one operation to the next, for as long as the journey is stored.
C10_KeysOnlyGrow ==
  [][\A j \in (DOMAIN store) \cap (DOMAIN store') :
       /\ DOMAIN store[j].stepCompletion \subseteq DOMAIN store'[j].stepCompletion
       /\ DOMAIN store[j].checklist \subseteq DOMAIN store'[j].checklist]_vars

\* a step that was auto-completed has been set back to false and is still a key
C10_Witness ==
  /\ resp.op = "updateStepCompletion"
  /\ resp.code = 200
  /\ store[resp.jid].timestamps.casAutoCompleted # NoTime
  /\ "cas" \in DOMAIN store[resp.jid].stepCompletion
  /\ store[resp.jid].stepCompletion["cas"] = FALSE

\* sequence a is a prefix of sequence b
IsPrefix(a, b) == Len(a) <= Len(b) /\ SubSeq(b, 1, Len(a)) = a

\* C11: the notes list is append-only: for a journey stored before and after
\* a step, the notes before are a prefix of the notes after, and a successful
\* addJourneyNote leaves the notes as they were followed by one entry
\* {content, author} made of the request's content and the caller's email.
C11_NotesAppendOnly ==
  [][/\ \A j \in (DOMAIN store) \cap (DOMAIN store') : IsPrefix(store[j].notes, store'[j].notes)
     /\ (/\ HandlerStep
         /\ resp'.op = "addJourneyNote"
         /\ resp'.code = 201)
        => store'[resp'.jid].notes =
             Append(store[resp'.jid].notes,
                    [content |-> resp'.arg.content, author |-> EmailOf(resp'.caller)])]_vars

\* a second note, different from the first, has been added after it
C11_Witness ==
  /\ resp.op = "addJourneyNote"
  /\ resp.code = 201
  /\ Len(store[resp.jid].notes) = 2
  /\ store[resp.jid].notes[1].content # store[resp.jid].notes[2].content
  /\ store[resp.jid].notes[2].content = resp.arg.content

\* the entries of a sharedWith list for an email
SharesFor(sharedWith, email) == {i \in 1..Len(sharedWith) : sharedWith[i].email = email}

\* C12: shares by the owner, served one at a time: sharedWith holds at most one
\* entry per email, a successful share leaves the entry of its email with the
\* permission it gave and the entries of the other emails as they were, and
\* isShared is true once a share has succeeded and stays true.
C12_ShareUpsert ==
  [][/\ \A j \in DOMAIN store' :
          /\ \A e \in ShareEmails : Cardinality(SharesFor(store'[j].sharedWith, e)) <= 1
          /\ store'[j].sharedWith # << >> => store'[j].isShared
          /\ (j \in DOMAIN store /\ store[j].isShared) => store'[j].isShared
     /\ (/\ HandlerStep
         /\ resp'.op = "shareJourney"
         /\ resp'.code = 200)
        => LET before == store[resp'.jid].sharedWith
               after == store'[resp'.jid].sharedWith
           IN /\ store'[resp'.jid].isShared
              /\ \E i \in SharesFor(after, resp'.arg.email) :
                   after[i].permissions = resp'.arg.permissions
              /\ \A e \in ShareEmails \ {resp'.arg.email} :
                   {after[i] : i \in SharesFor(after, e)} = {before[i] : i \in SharesFor(before, e)}]_vars

\* a share answered for an email shared at an earlier time: the entry made
\* then is still the only one and holds the permission of this share
C12_Witness ==
  /\ resp.op = "shareJourney"
  /\ resp.code = 200
  /\ resp.arg.permissions = "edit"
  /\ \E i \in SharesFor(store[resp.jid].sharedWith, resp.arg.email) :
       /\ store[resp.jid].sharedWith[i].sharedAt < now
       /\ store[resp.jid].sharedWith[i].permissions = "edit"

\* the operations addressed to a journey by its id
IdOps ==
  {"getJourneyById", "updateStepCompletion", "updateJourneyChecklist",
   "updateJourneyPersonalization", "addJourneyNote", "shareJourney", "deleteJourney"}

\* the ids the store issued whose journey is gone: ids are issued once and
\* only deleteJourney removes a journey
DeletedIds == {id \in 1..(nextId - 1) : id \notin DOMAIN store}

C14_NewJourneyEmptyMaps ==
  [][(/\ HandlerStep
      /\ resp'.op = "createOrUpdateJourney"
      /\ resp'.created)
     => (/\ store'[resp'.jid].status = "started"
         /\ store'[resp'.jid].phase = "selection"
         /\ store'[resp'.jid].stepCompletion = EmptyMap
         /\ store'[resp'.jid].checklist = EmptyMap)]_vars

\* C14 amended: the journey createOrUpdateJourney creates has status started
\* and phase selection whatever the request body contains, and its
\* stepCompletion and checklist maps hold exactly the entries the body
\* carries, none when the body carries none.
C14_NewJourneyFromBody ==
  [][(/\ HandlerStep
      /\ resp'.op = "createOrUpdateJourney"
      /\ resp'.created)
     => (/\ resp'.jid \notin DOMAIN store
         /\ store'[resp'.jid].status = "started"
         /\ store'[resp'.jid].phase = "selection"
         /\ store'[resp'.jid].stepCompletion = resp'.arg.stepCompletion
         /\ store'[resp'.jid].checklist = resp'.arg.checklist)]_vars

\* a journey was created from a body that carried a completed step and a
\* checked checklist item
C14_Witness ==
  /\ resp.op = "createOrUpdateJourney"
  /\ resp.created
  /\ resp.arg.stepCompletion = [cas |-> TRUE]
  /\ resp.arg.checklist = [passport |-> TRUE]
  /\ store[resp.jid].stepCompletion = [cas |-> TRUE]
  /\ store[resp.jid].status = "started"

\* C15: updatePersonalization(partial) merges: after the call every key of
\* partial has partial's value in personalizationData, and every key of the
\* previous personalizationData that partial does not name keeps its value.
C15_PersonalizationMerges ==
  [][(/\ HandlerStep
      /\ resp'.op = "updateJourneyPersonalization"
      /\ resp'.code = 200)
     => LET partial == resp'.arg.personalizationData
            before == store[resp'.jid].personalizationData
            after == store'[resp'.jid].personalizationData
        IN /\ \A k \in DOMAIN partial : k \in DOMAIN after /\ after[k] = partial[k]
           /\ \A k \in (DOMAIN before) \ (DOMAIN partial) :
                k \in DOMAIN after /\ after[k] = before[k]]_vars

\* an update that named studyLocation only was applied to a journey whose
\* hasCAS answer was true, and the answer is still true
C15_Witness ==
  /\ resp.op = "updateJourneyPersonalization"
  /\ resp.code = 200
  /\ resp.arg.personalizationData = [studyLocation |-> "london"]
  /\ store[resp.jid].personalizationData["studyLocation"] = "london"
  /\ store[resp.jid].personalizationData["hasCAS"] = TRUE

\* C16: updateChecklist(updates) merges: after the call every key of updates
\* has the value updates gives it, every other checklist key keeps its value,
\* and stepCompletion and personalizationData are as before.
C16_ChecklistMerges ==
  [][(/\ HandlerStep
      /\ resp'.op = "updateJourneyChecklist"
      /\ resp'.code = 200)
     => LET updates == resp'.arg.checklist
            before == store[resp'.jid].checklist
            after == store'[resp'.jid].checklist
        IN /\ \A k \in DOMAIN updates : k \in DOMAIN after /\ after[k] = updates[k]
           /\ \A k \in (DOMAIN before) \ (DOMAIN updates) :
                k \in DOMAIN after /\ after[k] = before[k]
           /\ DOMAIN after = (DOMAIN before) \cup (DOMAIN updates)
           /\ store'[resp'.jid].stepCompletion = store[resp'.jid].stepCompletion
           /\ store'[resp'.jid].personalizationData = store[resp'.jid].personalizationData]_vars

\* an update that named the photo only was applied to a journey that had the
\* passport on its checklist and a completed step, and both are still there
C16_Witness ==
  /\ resp.op = "updateJourneyChecklist"
  /\ resp.code = 200
  /\ resp.arg.checklist = [photo |-> FALSE]
  /\ DOMAIN store[resp.jid].checklist = {"passport", "photo"}
  /\ store[resp.jid].checklist["passport"] = TRUE
  /\ store[resp.jid].stepCompletion # EmptyMap

\* C17: addJourneyNote by the owner of a stored journey: content that is empty
\* or longer than 1000 characters is answered with a validation error and
\* leaves the store (notes and lastActivity) as it was; content of 1 to 1000
\* characters is accepted.
C17_NoteLengthValidated ==
  [][(/\ HandlerStep
      /\ resp'.op = "addJourneyNote"
      /\ resp'.jid \in DOMAIN store
      /\ store[resp'.jid].userId = resp'.caller)
     => IF NoteContentValid(resp'.arg.content)
        THEN resp'.code = 201
        ELSE resp'.code = 400 /\ store' = store]_vars

\* C18: status changes by client action and no transition table restricts it:
\* whenever the server can serve a request, for every stored journey and
\* every status value t some client operation leaves that journey with
\* status t.
C18_StatusClientDriven ==
  (resp = NoResponse /\ writes < MaxWrites)
  => \A j \in DOMAIN store : \A t \in Statuses :
       ENABLED (Next /\ j \in DOMAIN store' /\ store'[j].status = t)

\* the falsy values of JavaScript among the values of the model
Falsy == {JsBoolean(FALSE), JsString(""), JsNumber(0), JsUndefined}

\* the value the answers hold for a field, undefined when they hold none
AnswerOf(answers, field) == IF field \in DOMAIN answers THEN answers[field] ELSE JsUndefined

\* the call was made with a condition on exactly one field
OneField(call) == ~call.conditions.isNull /\ Cardinality(DOMAIN call.conditions.entries) = 1

\* C19: boolean branches of evaluateConditions with one field: a null
\* condition yields true; expected value true yields true iff the answer is
\* truthy; expected value false yields true iff the answer is falsy; an
\* absent field counts as falsy in both branches.
C19_BooleanBranches ==
  pdf.pc = "done"
  => /\ pdf.conditions.isNull => pdf.result = TRUE
     /\ OneField(pdf)
        => \A f \in DOMAIN pdf.conditions.entries :
             LET expected == pdf.conditions.entries[f]
                 answer == AnswerOf(pdf.answers, f)
             IN /\ expected = JsBoolean(TRUE) => (pdf.result <=> answer \notin Falsy)
                /\ expected = JsBoolean(FALSE) => (pdf.result <=> answer \in Falsy)
                /\ (expected = JsBoolean(TRUE) /\ f \notin DOMAIN pdf.answers) => ~pdf.result
                /\ (expected = JsBoolean(FALSE) /\ f \notin DOMAIN pdf.answers) => pdf.result

\* a condition hasCAS: true met a non-empty string answer and held
C19_Witness ==
  /\ pdf.pc = "done"
  /\ pdf.conditions = Conditions([hasCAS |-> JsBoolean(TRUE)])
  /\ "hasCAS" \in DOMAIN pdf.answers
  /\ pdf.answers["hasCAS"] = JsString("london")
  /\ pdf.result = TRUE

\* C20: a condition on one field whose expected value is a string or a number
\* yields true iff the answer is strictly equal to it (same type, same value);
\* a number that differs from the answer, or whose field is absent, yields false.
C20_StrictEquality ==
  (pdf.pc = "done" /\ OneField(pdf))
  => \A f \in DOMAIN pdf.conditions.entries :
       LET expected == pdf.conditions.entries[f]
       IN expected.type \in {"string", "number"}
          => (pdf.result <=> AnswerOf(pdf.answers, f) = expected)

\* what a condition means: null holds; expected true asks for a truthy answer,
\* expected false for a falsy one, a string or a number for that very value
ConditionHolds(conditions, answers) ==
  \/ conditions.isNull
  \/ \A f \in DOMAIN conditions.entries :
       LET expected == conditions.entries[f]
           answer == AnswerOf(answers, f)
       IN CASE expected = JsBoolean(TRUE) -> answer \notin Falsy
            [] expected = JsBoolean(FALSE) -> answer \in Falsy
            [] OTHER -> answer = expected

\* the entries of a list whose condition holds, in the order of the list
Applicable(items, answers) ==
  SelectSeq(items, LAMBDA item : ConditionHolds(item.conditions, answers))

\* C21: processVisaSteps and processDocuments return exactly the entries whose
\* condition holds for the answers (entries without a condition always), in
\* catalog order, each tagged isPersonalized iff it carries a condition.
C21_PersonalizerFilters ==
  (pdf.pc = "called" /\ pdf.fn \in PdfPersonalizers)
  => LET expected == Applicable(pdf.before, pdf.answers)
     IN /\ Len(pdf.result) = Len(expected)
        /\ \A i \in 1..Len(expected) :
             /\ pdf.result[i].stepNumber = expected[i].stepNumber
             /\ pdf.result[i].conditions = expected[i].conditions
             /\ pdf.result[i].isPersonalized = ~expected[i].conditions.isNull

\* the condition clause of a catalog entry, of either catalog
ClauseOf(item) ==
  IF "conditions" \in DOMAIN item THEN item.conditions
  ELSE IF item.showIf.set THEN Conditions([f \in {item.showIf.field} |-> item.showIf.value])
  ELSE NullConditions

\* a list reduced to the step number and the clause of each entry
Entries(items) ==
  [i \in 1..Len(items) |-> [stepNumber |-> items[i].stepNumber, clause |-> ClauseOf(items[i])]]

Occurrences(items, x) == Cardinality({i \in 1..Len(items) : items[i] = x})

SortedByStepNumber(items) ==
  \A i, j \in 1..Len(items) : i < j => items[i].stepNumber <= items[j].stepNumber

StepPersonalizers == {"processVisaSteps", "getPersonalizedSteps"}

\* C22: both step personalizers return a list sorted by stepNumber ascending
\* that holds a step of the catalog iff the step has no clause or its clause
\* holds for the answers, whatever the stored order.
C22_StepsSortedAndFiltered ==
  (pdf.pc = "called" /\ pdf.fn \in StepPersonalizers)
  => LET got == Entries(pdf.result)
         stored == Entries(pdf.before)
         wanted == SelectSeq(stored, LAMBDA e : ConditionHolds(e.clause, pdf.answers))
     IN /\ SortedByStepNumber(pdf.result)
        /\ Len(got) = Len(wanted)
        /\ \A i \in 1..Len(wanted) : Occurrences(got, wanted[i]) = Occurrences(wanted, wanted[i])

\* the amounts of the additional fees whose condition holds, added up
RECURSIVE DueAmounts(_, _)
DueAmounts(additional, answers) ==
  IF additional = <<>> THEN 0
  ELSE (IF ConditionHolds(Head(additional).conditions, answers)
        THEN Head(additional).amount ELSE 0)
       + DueAmounts(Tail(additional), answers)

\* C23: calculateTotalFee is fees.base plus the amounts of exactly the
\* additional fees whose condition holds for the answers, and 0 without fees;
\* base 524 with 776 on hasCAS and 500 on priorityService is 1300 for
\* answers {hasCAS: true}.
C23_TotalFee ==
  pdf.pc = "priced"
  => /\ pdf.fees.isNull => pdf.total = 0
     /\ ~pdf.fees.isNull
        => pdf.total = (IF pdf.fees.base.type = "number" THEN pdf.fees.base.n ELSE 0)
                       + DueAmounts(pdf.fees.additional, pdf.answers)

C28_EvaluatorsAgree ==
  pdf.pc = "compared" => (pdf.retained <=> pdf.result)

\* the steps other than its own that the request did not see when it read
OtherMissed == (DOMAIN resp.arg.missed) \ {resp.arg.stepId}

\* the response of an updateStepCompletion that saved while the store held
\* an entry for a step other than its own that its copy did not have: a
\* request on that step saved in between
OverlappedStepSave ==
  /\ resp.op = "updateStepCompletion"
  /\ resp.code = 200
  /\ "missed" \in DOMAIN resp.arg
  /\ OtherMissed # {}

\* C25: when two updateStepCompletion requests on different steps of one
\* journey overlap (both read, then both save), the save of the second
\* overwrites the document and the step of the first is no longer recorded.
C25_LostUpdate ==
  OverlappedStepSave
  => \E k \in OtherMissed :
       ~(/\ k \in DOMAIN store[resp.jid].stepCompletion
         /\ store[resp.jid].stepCompletion[k] = resp.arg.missed[k])

\* C25 amended: both steps are recorded after the two saves, because save()
\* writes the changed map entries only.
C25_BothStepsRecorded ==
  OverlappedStepSave
  => /\ \A k \in OtherMissed :
          /\ k \in DOMAIN store[resp.jid].stepCompletion
          /\ store[resp.jid].stepCompletion[k] = resp.arg.missed[k]
     /\ resp.arg.stepId \in DOMAIN store[resp.jid].stepCompletion
     /\ store[resp.jid].stepCompletion[resp.arg.stepId] = resp.arg.completed

\* two overlapping requests completed the two steps: the store holds both and
\* its counters, written by the second save from its own copy, count one
C25_Witness ==
  /\ OverlappedStepSave
  /\ resp.arg.completed
  /\ store[resp.jid].stepCompletion = [k \in StepIds |-> TRUE]
  /\ store[resp.jid].progressMetrics.completedSteps = 1
  /\ store[resp.jid].progressMetrics.totalSteps = 1

\* the number of entries of a map that are true
TrueEntries(m) == Cardinality({k \in DOMAIN m : m[k]})

\* C26: a successful step update sets stepCompletion[stepId] to the requested
\* value and leaves the other stepCompletion entries, the checklist,
\* personalizationData, notes and sharedWith as they were; completing a step
\* stamps timestamps.stepCompleted; both directions recompute progressMetrics
\* and stamp lastActivity.
C26_StepUpdateFrame ==
  [][(/\ HandlerStep
      /\ resp'.op = "updateStepCompletion"
      /\ resp'.code = 200)
     => LET stepId == resp'.arg.stepId
            before == store[resp'.jid]
            after == store'[resp'.jid]
        IN /\ DOMAIN after.stepCompletion = (DOMAIN before.stepCompletion) \cup {stepId}
           /\ after.stepCompletion[stepId] = resp'.arg.completed
           /\ \A k \in (DOMAIN before.stepCompletion) \ {stepId} :
                after.stepCompletion[k] = before.stepCompletion[k]
           /\ after.checklist = before.checklist
           /\ after.personalizationData = before.personalizationData
           /\ after.notes = before.notes
           /\ after.sharedWith = before.sharedWith
           /\ resp'.arg.completed => after.timestamps.stepCompleted = now
           /\ after.timestamps.lastActivity = now
           /\ after.progressMetrics.totalSteps = Cardinality(DOMAIN after.stepCompletion)
           /\ after.progressMetrics.completedSteps = TrueEntries(after.stepCompletion)
           /\ after.progressMetrics.checklistItems = Cardinality(DOMAIN after.checklist)
           /\ after.progressMetrics.completedChecklistItems = TrueEntries(after.checklist)]_vars

\* the step cas was completed on a journey that holds another step, a
\* checklist and answers, at a time after the CAS auto-completion
C26_Witness ==
  /\ resp.op = "updateStepCompletion"
  /\ resp.code = 200
  /\ resp.arg.completed
  /\ DOMAIN store[resp.jid].stepCompletion = StepIds
  /\ store[resp.jid].checklist # EmptyMap
  /\ store[resp.jid].personalizationData # PDDefaults
  /\ store[resp.jid].timestamps.stepCompleted = now
  /\ store[resp.jid].timestamps.casAutoCompleted # NoTime
  /\ store[resp.jid].timestamps.casAutoCompleted < now

\* C27: a createOrUpdateJourney that updates an existing journey never
\* starts a save() of the document while an earlier save() it started is
\* still in flight: none of its save() calls follows another without an await
\* in between, so it issues its saves one at a time.
C27_NoParallelSave ==
  (/\ resp.op = "createOrUpdateJourney"
   /\ resp.jid # NoId
   /\ ~resp.created)
  => resp.saves <= 1

\* C30: createOrUpdateJourney answers 201 iff it inserted a new journey and
\* 200 iff it updated an existing active one.
C30_CreatedIs201 ==
  (resp.op = "createOrUpdateJourney" /\ resp.jid # NoId)
  => /\ resp.created <=> resp.code = 201
     /\ ~resp.created <=> resp.code = 200

\* C29: after five consecutive failed attempts the account is locked; while
\* a lock is in force no attempt is accepted, the correct password included;
\* a login accepted with no lock in force leaves the failed-attempt counter
\* at zero.
C29_LoginLock ==
  /\ auth.streak >= MaxLoginAttempts => (auth.lockUntil # NoTime /\ auth.lockUntil > now)
  /\ auth.last.locked => auth.last.code # 200
  /\ auth.last.code = 200 => auth.loginAttempts = 0

\* the fifth failed attempt in a row locked the account and the correct
\* password, sent while the lock is in force, was rejected
C29_Witness ==
  /\ auth.streak = MaxLoginAttempts
  /\ auth.lockUntil > now
  /\ auth.last.correct
  /\ auth.last.locked
  /\ auth.last.code = 423

====
